---- MODULE Spec2Model ----
(***************************************************************************)
(* Ground-control monitor of src/index.py: the serial transport            *)
(* (SerialCommunication), the telemetry decoder (_parse_telemetry), the    *)
(* flight state with its safety analysis (ModernHUD) and the chat command  *)
(* dispatch (MainWindow._handle_user_message).                             *)
(*                                                                         *)
(* Text is a sequence of lexical atoms: the separators ":", "|", "," and   *)
(* " " are atoms of their own, every other atom is a run of characters     *)
(* holding no separator.  "SUM:AS:50.5|Sys:GM" is                          *)
(*   <<"SUM", ":", "AS", ":", "50.5", "|", "Sys", ":", "G", "M">>.         *)
(* Floats are fixed-point tenths (50.5 km/h is 505); integers are plain.   *)
(***************************************************************************)
EXTENDS Integers, Sequences, FiniteSets, TLC

VARIABLES
    \* SerialCommunication
    serial_port, read_timer,
    \* the locals of the last _read_data / _parse_telemetry call, the signals
    \* the last handler emitted, and the handler that ran last
    line, telemetry_data, signals, op,
    \* the bytes the last handler wrote to the port, and the chat response
    \* of the last _handle_user_message call
    written, response,
    \* ModernHUD: telemetry fields
    airspeed, altitude, heading, battery, mode, armed, roll, pitch, throttle,
    safety_state, gps_sats,
    \* ModernHUD: link monitor
    connection_status, last_data_time,
    \* ModernHUD: performance metrics and alert lists
    max_speed, min_speed, warnings, critical_alerts, smart_recommendations,
    performance_tips, system_status,
    \* ModernHUD: system metrics
    rssi, cpu_load, memory_usage,
    \* LocalLLM: the load flags, the request queue, the prompt the worker
    \* thread holds between get() and emit(), and whether the worker runs
    is_ready, is_loading, request_queue, worker_prompt, worker_started,
    \* wall clock, time.time(), in seconds
    now

serialVars == <<serial_port, read_timer>>
callVars == <<line, telemetry_data, signals, op>>
cmdVars == <<written, response>>
fieldVars == <<airspeed, altitude, heading, battery, mode, armed, roll, pitch,
               throttle, safety_state, gps_sats>>
alertVars == <<warnings, critical_alerts, smart_recommendations,
               performance_tips, system_status>>
sysVars == <<rssi, cpu_load, memory_usage>>
hudVars == <<fieldVars, connection_status, last_data_time, max_speed,
             min_speed, alertVars, sysVars>>
llmVars == <<is_ready, is_loading, request_queue, worker_prompt, worker_started>>
vars == <<serialVars, callVars, cmdVars, hudVars, llmVars, now>>

----------------------------------------------------------------------------
(* Bounds *)

\* longest generated line, in pipe-separated fields
MaxParts == 3
\* most questions waiting in the request queue
MaxQueue == 2
\* the clock runs from StartTime to StartTime + MaxTime
MaxTime == 6

(* Program constants *)

data_timeout == 5
\* time.time() at start-up: any value far above data_timeout
StartTime == 10

\* no chat message has been answered by the last handler
NoResponse == [text |-> "", cmd |-> <<>>]

\* a handler that neither writes to the port nor answers a chat message
NoCommand == written' = <<>> /\ response' = NoResponse

----------------------------------------------------------------------------
(* Python text and dict operations *)

\* s.startswith(p)
startswith(s, p) == Len(s) >= Len(p) /\ SubSeq(s, 1, Len(p)) = p

\* c in s
Contains(s, c) == \E i \in 1..Len(s) : s[i] = c

\* index of the first occurrence of c in s (c occurs in s)
IndexOf(s, c) == CHOOSE i \in 1..Len(s) : s[i] = c /\ \A j \in 1..(i - 1) : s[j] # c

\* s.split(sep): "" splits to [""], "a||b" to ["a", "", "b"]
RECURSIVE split(_, _)
split(s, sep) ==
    IF Contains(s, sep)
    THEN <<SubSeq(s, 1, IndexOf(s, sep) - 1)>>
            \o split(SubSeq(s, IndexOf(s, sep) + 1, Len(s)), sep)
    ELSE <<s>>

\* s.split(sep, 1): at most one cut, at the first sep
split1(s, sep) ==
    IF Contains(s, sep)
    THEN <<SubSeq(s, 1, IndexOf(s, sep) - 1), SubSeq(s, IndexOf(s, sep) + 1, Len(s))>>
    ELSE <<s>>

\* s.strip(): leading and trailing whitespace removed
RECURSIVE strip(_)
strip(s) ==
    IF s = <<>> THEN s
    ELSE IF Head(s) = " " THEN strip(Tail(s))
    ELSE IF s[Len(s)] = " " THEN strip(SubSeq(s, 1, Len(s) - 1))
    ELSE s

\* the numerals of the model and the value Python reads from each
FloatTable ==
    [x \in {"50.5", "20", "30", "105", "120", "400", "180", "2", "-1", "45",
            "1500", "3"} |->
        CASE x = "50.5" -> 505  [] x = "20" -> 200    [] x = "30" -> 300
          [] x = "105" -> 1050  [] x = "120" -> 1200  [] x = "400" -> 4000
          [] x = "180" -> 1800  [] x = "2" -> 20      [] x = "-1" -> -10
          [] x = "45" -> 450    [] x = "1500" -> 15000 [] x = "3" -> 30]

IntTable ==
    [x \in {"20", "30", "105", "120", "400", "180", "2", "-1", "45", "1500", "3"} |->
        CASE x = "20" -> 20     [] x = "30" -> 30     [] x = "105" -> 105
          [] x = "120" -> 120   [] x = "400" -> 400   [] x = "180" -> 180
          [] x = "2" -> 2       [] x = "-1" -> -1     [] x = "45" -> 45
          [] x = "1500" -> 1500 [] x = "3" -> 3]

\* float(v) / int(v) raise ValueError unless v is one numeral; int() refuses
\* a numeral with a fraction
FloatOk(v) == Len(v) = 1 /\ v[1] \in DOMAIN FloatTable
\* mutant: the fraction of a numeral is cut off
FloatWhole(v) == (FloatTable[v[1]] \div 10) * 10
float(v) == FloatTable[v[1]]
IntOk(v) == Len(v) = 1 /\ v[1] \in DOMAIN IntTable
int(v) == IntTable[v[1]]

\* d[k] = v
Put(d, k, v) == (k :> v) @@ d
\* d.get(k, default)
Get(d, k, default) == IF k \in DOMAIN d THEN d[k] ELSE default

\* a function's return: a dict, or None
None == [some |-> FALSE, data |-> <<>>]
Some(d) == [some |-> TRUE, data |-> d]
\* the except branch of _parse_telemetry: print, fall through to return None
Raised == [raised |-> TRUE, data |-> <<>>]
Ran(d) == [raised |-> FALSE, data |-> d]

----------------------------------------------------------------------------
(* SerialCommunication._parse_telemetry *)

\* one pass of the loop body: the dict after `part`, or the exception
ParsePart(parts, part, data) ==
    IF ~Contains(part, ":") THEN Ran(data)
    ELSE LET key == split1(part, ":")[1]
             value == split1(part, ":")[2]
         IN  IF key = <<"AS">> THEN
                 IF FloatOk(value) THEN Ran(Put(data, "airspeed", float(value)))
                 ELSE Raised
             ELSE IF key = <<"Alt">> THEN
                 IF FloatOk(value) THEN Ran(Put(data, "altitude", float(value)))
                 ELSE Raised
             ELSE IF key = <<"Hdg">> THEN
                 IF FloatOk(value) THEN Ran(Put(data, "heading", float(value)))
                 ELSE Raised
             ELSE IF key = <<"Att">> THEN
                 LET roll_pitch == split(value, ",")
                 IN  IF Len(roll_pitch) = 2 THEN
                         IF FloatOk(roll_pitch[1]) /\ FloatOk(roll_pitch[2])
                         THEN Ran(Put(Put(data, "roll", float(roll_pitch[1])),
                                      "pitch", float(roll_pitch[2])))
                         ELSE Raised
                     ELSE Ran(data)
             ELSE IF key = <<"Thr">> THEN
                 IF IntOk(value) THEN Ran(Put(data, "throttle", int(value)))
                 ELSE Raised
             ELSE IF key = <<"WP">> THEN
                 IF IntOk(value) THEN Ran(Put(data, "waypoint", int(value)))
                 ELSE Raised
             ELSE IF key = <<"Saf">> THEN Ran(Put(data, "safety_state", value))
             ELSE IF key = <<"Sys">> THEN
                 Ran(Put(Put(Put(Put(data, "gps_ok", Contains(value, "G")),
                                 "imu_ok", Contains(value, "I")),
                             "link_ok", Contains(value, "L")),
                         "motor_armed", Contains(value, "M")))
             ELSE IF Len(parts) > 0 THEN Ran(Put(data, "mode", parts[1]))
             ELSE Ran(data)

\* the for loop from part i on
RECURSIVE ParseLoop(_, _, _)
ParseLoop(parts, i, data) ==
    IF i > Len(parts) THEN Ran(data)
    ELSE LET r == ParsePart(parts, parts[i], data)
         IN  IF r.raised THEN Raised ELSE ParseLoop(parts, i + 1, r.data)

SumPrefix == <<"SUM", ":">>

\* mutant: the prefix is matched without regard to case
ParseAnyCase(l) ==
    IF startswith(l, SumPrefix) \/ startswith(l, <<"sum", ":">>)
    THEN LET parts == split(SubSeq(l, Len(SumPrefix) + 1, Len(l)), "|")
             r == ParseLoop(parts, 1, <<>>)
         IN  IF r.raised THEN None ELSE Some(r.data)
    ELSE None

\* mutant: the dict starts with a default airspeed instead of empty
ParseWithDefault(l) ==
    IF startswith(l, SumPrefix)
    THEN LET parts == split(SubSeq(l, Len(SumPrefix) + 1, Len(l)), "|")
             r == ParseLoop(parts, 1, ("airspeed" :> 0))
         IN  IF r.raised THEN None ELSE Some(r.data)
    ELSE None

_parse_telemetry(l) ==
    IF startswith(l, SumPrefix)
    THEN LET parts == split(SubSeq(l, Len(SumPrefix) + 1, Len(l)), "|")
             r == ParseLoop(parts, 1, <<>>)
         IN  IF r.raised THEN None ELSE Some(r.data)
    ELSE None

----------------------------------------------------------------------------
(* ModernHUD: envelope constants, in tenths where the code holds a float *)

CRITICAL_MIN_AIRSPEED == 280
STALL_WARNING_SPEED == 330
CRITICAL_MAX_AIRSPEED == 1100
CRITICAL_MAX_ROLL == 300
GPS_MIN_SATELLITES == 6
GPS_MAX_HDOP == 18
\* self.hdop and self.wind_speed are set in __init__ and never written again
hdop == 990
wind_speed == 0
temperature == 250
flight_time == 0
distance_traveled == 0
avg_speed == 0

Abs(x) == IF x < 0 THEN -x ELSE x
\* f"{x:.0f}" of a float held in tenths: round half to even
Round0(x) ==
    LET q == x \div 10
        r == x % 10
    IN  IF r < 5 THEN q
        ELSE IF r > 5 THEN q + 1
        ELSE IF q % 2 = 0 THEN q ELSE q + 1

\* one line of an alert list: the fixed text and the number formatted into it
Alert(tag, arg) == [tag |-> tag, arg |-> arg]
\* any(tag in alert for alert in alerts)
AnyHas(alerts, tag) == \E i \in 1..Len(alerts) : alerts[i].tag = tag
\* appended when the condition holds
When(cond, alert) == IF cond THEN <<alert>> ELSE <<>>

\* ModernHUD._analyze_real_data on the fields st: the two lists it leaves
_analyze_real_data(st) ==
    IF st.connection_status = "NO DATA"
    THEN [critical_alerts |-> <<Alert("NO TELEMETRY DATA", 0)>>, warnings |-> <<>>]
    ELSE
      LET critical ==
              (IF st.battery < 150
               THEN <<Alert("CRITICAL BATTERY", Round0(st.battery))>>
               ELSE IF st.battery < 250
               THEN <<Alert("LOW BATTERY", Round0(st.battery))>>
               ELSE <<>>)
              \o When(st.gps_sats < 4, Alert("GPS CRITICAL", 0))
              \o When(Abs(st.roll) > CRITICAL_MAX_ROLL, Alert("ATTITUDE CRITICAL", 0))
              \o When(st.airspeed <= CRITICAL_MIN_AIRSPEED /\ st.armed,
                      Alert("STALL CRITICAL", 0))
          warning ==
              When(st.gps_sats < 6 /\ ~AnyHas(critical, "GPS CRITICAL"),
                   Alert("GPS LIMITED", st.gps_sats))
              \o (IF st.armed /\ st.airspeed < STALL_WARNING_SPEED
                  THEN <<Alert("SPEED LOW", 0)>>
                  ELSE IF st.airspeed * 10 > CRITICAL_MAX_AIRSPEED * 9
                  THEN <<Alert("SPEED HIGH", 0)>>
                  ELSE <<>>)
              \o (IF st.altitude > 3500
                  THEN <<Alert("HIGH ALTITUDE", 0)>>
                  ELSE IF st.armed /\ st.altitude < 30
                  THEN <<Alert("VERY LOW", 0)>>
                  ELSE <<>>)
      IN  [critical_alerts |-> critical, warnings |-> warning]

\* mutant: the minimum is tracked without the 5 km/h noise floor
MinSpeedNoFloor(st) ==
    IF st.armed /\ st.airspeed < st.min_speed THEN st.airspeed ELSE st.min_speed

\* the performance tracking of _analyze_smart_telemetry (lines 926-930)
MaxSpeedAfter(st) ==
    IF st.armed /\ st.airspeed > st.max_speed THEN st.airspeed ELSE st.max_speed
MinSpeedAfter(st) ==
    IF st.armed /\ st.airspeed < st.min_speed /\ st.airspeed > 50
    THEN st.airspeed ELSE st.min_speed

\* mutant: a crosswind that grows with the wall clock
CrosswindFromClock(st) == (st.now - StartTime) * 40

\* self.wind_speed * sin(...) with wind_speed 0.0: zero for every heading
crosswind_component(st) == wind_speed * 0

\* mutant: the low-battery test is an `if` of its own, not an `elif`
SmartCriticalBothBattery(st) ==
    When(st.battery < 150, Alert("CRITICAL BATTERY", (st.battery * 3) \div 100))
    \o When(st.battery < 250, Alert("LOW BATTERY", (st.battery * 4) \div 100))
    \o When(st.gps_sats < 4, Alert("GPS CRITICAL", 0))
    \o When(Abs(st.roll) > CRITICAL_MAX_ROLL, Alert("ATTITUDE CRITICAL", 0))
    \o When(st.airspeed <= CRITICAL_MIN_AIRSPEED /\ st.armed,
            Alert("STALL CRITICAL", 0))

\* mutant: the critical tier without the battery tests
SmartCriticalNoBattery(st) ==
    When(st.gps_sats < 4, Alert("GPS CRITICAL", 0))
    \o When(Abs(st.roll) > CRITICAL_MAX_ROLL, Alert("ATTITUDE CRITICAL", 0))
    \o When(st.airspeed <= CRITICAL_MIN_AIRSPEED /\ st.armed,
            Alert("STALL CRITICAL", 0))

\* the critical tier of _analyze_smart_telemetry
SmartCritical(st) ==
    (IF st.battery < 150
     THEN <<Alert("CRITICAL BATTERY", (st.battery * 3) \div 100)>>
     ELSE IF st.battery < 250
     THEN <<Alert("LOW BATTERY", (st.battery * 4) \div 100)>>
     ELSE <<>>)
    \o When(st.gps_sats < 4, Alert("GPS CRITICAL", 0))
    \o When(Abs(st.roll) > CRITICAL_MAX_ROLL, Alert("ATTITUDE CRITICAL", 0))
    \o When(st.airspeed <= CRITICAL_MIN_AIRSPEED /\ st.armed,
            Alert("STALL CRITICAL", 0))

\* mutant: the GPS warning without its suppression test
GpsLimitedUnsuppressed(st, critical) ==
    When(st.gps_sats < GPS_MIN_SATELLITES, Alert("GPS LIMITED", st.gps_sats))

\* the GPS warning, suppressed by the GPS critical alert
GpsLimited(st, critical) ==
    When(st.gps_sats < GPS_MIN_SATELLITES /\ ~AnyHas(critical, "GPS CRITICAL"),
         Alert("GPS LIMITED", st.gps_sats))

\* the warning tier of _analyze_smart_telemetry
SmartWarnings(st, critical) ==
    GpsLimited(st, critical)
    \o When(hdop > GPS_MAX_HDOP, Alert("GPS ACCURACY LOW", hdop))
    \o (IF st.armed /\ st.airspeed < STALL_WARNING_SPEED
        THEN <<Alert("SPEED LOW", 0)>>
        ELSE IF st.airspeed * 10 > CRITICAL_MAX_AIRSPEED * 9
        THEN <<Alert("SPEED HIGH", 0)>>
        ELSE <<>>)
    \o (IF st.altitude > 3500
        THEN <<Alert("HIGH ALTITUDE", 0)>>
        ELSE IF st.armed /\ st.altitude < 30
        THEN <<Alert("VERY LOW", 0)>>
        ELSE <<>>)
    \o When(Abs(crosswind_component(st)) > 150,
            Alert("STRONG CROSSWIND", Round0(crosswind_component(st))))

\* mutant: "safe for takeoff" is recommended whatever the critical list holds
RecommendIgnoringCritical(st, critical) ==
    IF st.mode = <<"ARMED">>
    THEN <<Alert("Systems ready - Safe for takeoff", 0)>>
    ELSE IF st.mode = <<"TAKEOFF">> /\ st.altitude > 300
    THEN <<Alert("Good climb", 0)>>
    ELSE IF st.battery < 400 /\ st.altitude > 800
    THEN <<Alert("Consider RTL mode", 0)>>
    ELSE IF wind_speed > 200
    THEN <<Alert("High wind", 0)>>
    ELSE <<>>

\* the recommendation tier of _analyze_smart_telemetry
SmartRecommendations(st, critical) ==
    IF st.mode = <<"ARMED">> /\ Len(critical) = 0
    THEN <<Alert("Systems ready - Safe for takeoff", 0)>>
    ELSE IF st.mode = <<"TAKEOFF">> /\ st.altitude > 300
    THEN <<Alert("Good climb", 0)>>
    ELSE IF st.battery < 400 /\ st.altitude > 800
    THEN <<Alert("Consider RTL mode", 0)>>
    ELSE IF wind_speed > 200
    THEN <<Alert("High wind", 0)>>
    ELSE <<>>

\* int(10 * math.sin(t * 0.1)) and int(15 * math.sin(t * 0.1 * 0.7)) for the
\* clock values t = 0..40, entry t + 1
Sin10 ==
    << 0, 0, 1, 2, 3, 4, 5, 6, 7, 7, 8, 8, 9, 9, 9, 9, 9, 9, 9, 9, 9,
       8, 8, 7, 6, 5, 5, 4, 3, 2, 1, 0, 0, -1, -2, -3, -4, -5, -6, -6, -7 >>
Sin15 ==
    << 0, 1, 2, 3, 4, 5, 6, 7, 7, 8, 9, 10, 11, 11, 12, 13, 13, 13, 14, 14, 14,
       14, 14, 14, 14, 14, 14, 14, 13, 13, 12, 12, 11, 11, 10, 9, 8, 7, 6, 6, 5 >>

\* the simulated system load, refreshed only while armed
CpuLoadAfter(st) == IF st.armed THEN 25 + Sin10[st.now + 1] ELSE st.cpu_load
MemoryUsageAfter(st) == IF st.armed THEN 50 + Sin15[st.now + 1] ELSE st.memory_usage

\* int(x / 100), truncating towards zero
Trunc100(x) == IF x < 0 THEN -((-x) \div 100) ELSE x \div 100
Max(a, b) == IF a > b THEN a ELSE b
Min(a, b) == IF a < b THEN a ELSE b

\* the signal strength, refreshed only while armed:
\* int(-45 + altitude * 0.1 - abs(roll) * 0.3) clamped to -90..-30, in exact
\* arithmetic on tenths (equal to the float result on every frame of the
\* input sets)
RssiAfter(st) ==
    IF st.armed
    THEN Max(-90, Min(-30, Trunc100(-4500 + st.altitude - 3 * Abs(st.roll))))
    ELSE st.rssi

\* (distance_traveled / max(0.01, flight_time / 3600.0))
\*     / max(1, 100 - battery) * 100, in percent
efficiency(st) ==
    ((distance_traveled * 36000 * 1000) \div Max(36, flight_time * 10))
        \div Max(10, 1000 - st.battery)

\* the performance tips of _analyze_smart_telemetry
PerformanceTips(st) ==
    IF st.armed
    THEN (IF efficiency(st) > 80
          THEN <<Alert("EXCELLENT flight efficiency", 0)>>
          ELSE IF efficiency(st) < 40
          THEN <<Alert("TIP: Smoother controls", 0)>>
          ELSE <<>>)
         \o (IF avg_speed > 0
             THEN (IF avg_speed * 100 > 90 * 600
                   THEN <<Alert("Optimal cruise speed", 0)>>
                   ELSE IF avg_speed * 100 < 50 * 600
                   THEN <<Alert("TIP: 50-70 km/h", 0)>>
                   ELSE <<>>)
             ELSE <<>>)
    ELSE <<>>

\* the four lines of the system status
SystemStatus(r, cpu, mem) ==
    << Alert(IF r > -40 THEN "Signal: EXCELLENT"
             ELSE IF r > -60 THEN "Signal: GOOD" ELSE "Signal: WEAK", r),
       Alert(IF 100 < temperature /\ temperature < 400
             THEN "Temp: NORMAL" ELSE "Temp: EXTREME", Round0(temperature)),
       Alert(IF cpu < 80 THEN "CPU: NORMAL" ELSE "CPU: HIGH", cpu),
       Alert(IF mem < 85 THEN "Memory: NORMAL" ELSE "Memory: HIGH", mem) >>

\* mutant: the critical list is appended to without being cleared
AnalyzeWithoutClear(st) ==
    LET critical == SmartCritical(st)
    IN  [max_speed |-> MaxSpeedAfter(st),
         min_speed |-> MinSpeedAfter(st),
         cpu_load |-> CpuLoadAfter(st),
         memory_usage |-> MemoryUsageAfter(st),
         rssi |-> RssiAfter(st),
         critical_alerts |-> critical_alerts \o critical,
         warnings |-> SmartWarnings(st, critical),
         smart_recommendations |-> SmartRecommendations(st, critical),
         performance_tips |-> PerformanceTips(st),
         system_status |-> SystemStatus(RssiAfter(st), CpuLoadAfter(st),
                                        MemoryUsageAfter(st))]

\* ModernHUD._analyze_smart_telemetry on the fields st: what it leaves
_analyze_smart_telemetry(st) ==
    LET critical == SmartCritical(st)
    IN  [max_speed |-> MaxSpeedAfter(st),
         min_speed |-> MinSpeedAfter(st),
         cpu_load |-> CpuLoadAfter(st),
         memory_usage |-> MemoryUsageAfter(st),
         rssi |-> RssiAfter(st),
         critical_alerts |-> critical,
         warnings |-> SmartWarnings(st, critical),
         smart_recommendations |-> SmartRecommendations(st, critical),
         performance_tips |-> PerformanceTips(st),
         system_status |-> SystemStatus(RssiAfter(st), CpuLoadAfter(st),
                                        MemoryUsageAfter(st))]

\* mutant: a lost fix leaves five satellites
GpsSatsDegraded(data) ==
    IF "gps_ok" \in DOMAIN data THEN (IF data["gps_ok"] THEN 8 ELSE 5) ELSE gps_sats

\* mutant: the satellite count falls back to 0 when the frame has no gps_ok
GpsSatsReset(data) ==
    IF "gps_ok" \in DOMAIN data THEN (IF data["gps_ok"] THEN 8 ELSE 3) ELSE 0

\* the satellite count update_from_telemetry derives from the gps_ok flag
GpsSatsAfter(data) ==
    IF "gps_ok" \in DOMAIN data THEN (IF data["gps_ok"] THEN 8 ELSE 3) ELSE gps_sats

\* the fields after the data.get(...) assignments of update_from_telemetry,
\* as _analyze_real_data and _analyze_smart_telemetry read them
FieldsAfter(data) ==
              [airspeed |-> Get(data, "airspeed", airspeed),
               altitude |-> Get(data, "altitude", altitude),
               heading |-> Get(data, "heading", heading),
               battery |-> Get(data, "battery", battery),
               mode |-> Get(data, "mode", mode),
               armed |-> Get(data, "motor_armed", armed),
               roll |-> Get(data, "roll", roll),
               pitch |-> Get(data, "pitch", pitch),
               throttle |-> Get(data, "throttle", throttle),
               safety_state |-> Get(data, "safety_state", safety_state),
               gps_sats |-> GpsSatsAfter(data),
               connection_status |-> connection_status,
               max_speed |-> max_speed,
               min_speed |-> min_speed,
               rssi |-> rssi,
               cpu_load |-> cpu_load,
               memory_usage |-> memory_usage,
               now |-> now]

\* ModernHUD.update_from_telemetry(data)
update_from_telemetry(data) ==
    \E st \in {FieldsAfter(data)} :
    \* _analyze_real_data fills warnings and critical_alerts first;
    \* _analyze_smart_telemetry then clears both and fills them again
    \E real \in {_analyze_real_data(st)} :
    \E smart \in {_analyze_smart_telemetry(st)} :
        /\ last_data_time' = now
        /\ airspeed' = st.airspeed
        /\ altitude' = st.altitude
        /\ heading' = st.heading
        /\ battery' = st.battery
        /\ mode' = st.mode
        /\ armed' = st.armed
        /\ roll' = st.roll
        /\ pitch' = st.pitch
        /\ throttle' = st.throttle
        /\ safety_state' = st.safety_state
        /\ gps_sats' = st.gps_sats
        /\ max_speed' = smart.max_speed
        /\ min_speed' = smart.min_speed
        /\ critical_alerts' = smart.critical_alerts
        /\ warnings' = smart.warnings
        /\ smart_recommendations' = smart.smart_recommendations
        /\ performance_tips' = smart.performance_tips
        /\ system_status' = smart.system_status
        /\ rssi' = smart.rssi
        /\ cpu_load' = smart.cpu_load
        /\ memory_usage' = smart.memory_usage
        /\ UNCHANGED connection_status

\* a monitor that reports a link on which no frame was ever applied as
\* disconnected
StatusAtUnfed(t, last) ==
    IF last = 0 THEN "DISCONNECTED"
    ELSE IF t - last > data_timeout THEN "NO DATA" ELSE "RECEIVING"

\* mutant: the timeout test is >= instead of >
StatusAtInclusive(t, last) == IF t - last >= data_timeout THEN "NO DATA" ELSE "RECEIVING"

\* the link status a liveness check leaves
StatusAt(t, last) == IF t - last > data_timeout THEN "NO DATA" ELSE "RECEIVING"

\* a status check that drops the alert report when the link goes silent
CheckClearsAlerts ==
    /\ connection_status' = StatusAt(now, last_data_time)
    /\ op' = "_check_connection_status"
    /\ NoCommand
    /\ UNCHANGED llmVars
    /\ signals' = <<>>
    /\ IF StatusAt(now, last_data_time) = "NO DATA"
       THEN /\ critical_alerts' = <<>> /\ warnings' = <<>>
            /\ UNCHANGED <<smart_recommendations, performance_tips, system_status>>
       ELSE UNCHANGED alertVars
    /\ UNCHANGED <<serialVars, line, telemetry_data, fieldVars, last_data_time,
                   max_speed, min_speed, sysVars, now>>

\* ModernHUD._check_connection_status, the 1 s status_timer callback
_check_connection_status ==
    /\ connection_status' = StatusAt(now, last_data_time)
    /\ op' = "_check_connection_status"
    /\ NoCommand
    /\ UNCHANGED llmVars
    /\ signals' = <<>>
    /\ UNCHANGED <<serialVars, line, telemetry_data, fieldVars, last_data_time,
                   max_speed, min_speed, alertVars, sysVars, now>>

\* the steps of the wall clock between two callbacks: exactly the timeout, or
\* one second more
Elapse ==
    { data_timeout, data_timeout + 1 }

\* time passes; no callback runs
Tick ==
    \E d \in Elapse :
        /\ now + d <= StartTime + MaxTime
        /\ now' = now + d
        /\ op' = "Tick"
        /\ UNCHANGED cmdVars
        /\ UNCHANGED llmVars
        /\ UNCHANGED <<serialVars, line, telemetry_data, signals, hudVars>>

----------------------------------------------------------------------------
(* Initial state: SerialCommunication.__init__ and ModernHUD.__init__ *)

NoPort == "None"

InitHUD ==
    /\ airspeed = 0 /\ altitude = 0 /\ heading = 0 /\ battery = 0
    /\ mode = <<"NO DATA">> /\ armed = FALSE /\ roll = 0 /\ pitch = 0
    /\ throttle = 1000 /\ safety_state = <<"UNKNOWN">> /\ gps_sats = 0
    /\ connection_status = "DISCONNECTED" /\ last_data_time = 0
    /\ max_speed = 0 /\ min_speed = 9990
    /\ warnings = <<>> /\ critical_alerts = <<>> /\ smart_recommendations = <<>>
    /\ performance_tips = <<>> /\ system_status = <<>>
    /\ rssi = -45 /\ cpu_load = 15 /\ memory_usage = 45

InitSerial ==
    /\ serial_port = NoPort /\ read_timer = FALSE

\* LocalLLM.__init__ with the language-model libraries installed:
\* _initialize_llm has started the loader thread
InitLLM ==
    /\ is_ready = FALSE /\ is_loading = TRUE
    /\ request_queue = <<>> /\ worker_prompt = <<>> /\ worker_started = FALSE

Init ==
    /\ InitSerial /\ InitHUD /\ InitLLM
    /\ line = <<>> /\ telemetry_data = None /\ signals = <<>> /\ op = "__init__"
    /\ written = <<>> /\ response = NoResponse
    /\ now = StartTime

----------------------------------------------------------------------------
(* Input text *)

\* parts joined by "|"
RECURSIVE Join(_)
Join(ps) ==
    IF ps = <<>> THEN <<>>
    ELSE IF Len(ps) = 1 THEN ps[1]
    ELSE ps[1] \o <<"|">> \o Join(Tail(ps))

\* SUM:AS:50.5|Alt:120|Hdg:180|Att:2,-1|Thr:1500|Saf:SAFE
Scenario1Line ==
    SumPrefix \o Join(<< <<"AS", ":", "50.5">>, <<"Alt", ":", "120">>,
                         <<"Hdg", ":", "180">>, <<"Att", ":", "2", ",", "-1">>,
                         <<"Thr", ":", "1500">>, <<"Saf", ":", "SAFE">> >>)

\* the fields the decoder's lines are built from: a bare mode token, every
\* recognized key with a well-formed value, malformed values, an unknown key
Parts ==
    { <<"CRUISE">>,
      <<"AS", ":", "50.5">>, <<"AS", ":", "abc">>,
      <<"Alt", ":", "120">>, <<"Hdg", ":", "180">>,
      <<"Att", ":", "2", ",", "-1">>, <<"Att", ":", "2", ",", "abc">>,
      <<"Att", ":", "2">>,
      <<"Thr", ":", "1500">>, <<"Thr", ":", "50.5">>,
      <<"WP", ":", "3">>, <<"Saf", ":", "SAFE">>,
      <<"Sys", ":", "G", "M">>, <<"X", ":", "1">> }

Prefixes == { SumPrefix, <<"sum", ":">>, <<>> }

ParseLines ==
    { pfx \o Join(ps) :
        pfx \in Prefixes, ps \in UNION { [1..n -> Parts] : n \in 0..MaxParts } }
    \cup { Scenario1Line }

\* what the serial port delivers to readline() in the pipeline
WireLines ==
    { Scenario1Line,
      <<"SUM", ":", "CRUISE">>,
      <<"SUM", ":", "ARMED", "|", "X", ":", "1">>,
      <<"SUM", ":", "AS", ":", "20", "|", "Sys", ":", "G", "M">>,
      <<" ", "SUM", ":", "Sys", ":", "L", " ">>,
      <<"SUM", ":", "AS", ":", "abc", "|", "Alt", ":", "400">>,
      <<"AS", ":", "105">>,
      <<"sum", ":", "Alt", ":", "400">>,
      <<" ">> }

\* the dicts handed to update_from_telemetry when the HUD is driven directly
HUDFrames ==
    { ("airspeed" :> v) : v \in {30, 200, 400} }
    \cup { ("battery" :> v) : v \in {100, 200, 500} }
    \cup { ("gps_ok" :> v) : v \in BOOLEAN }
    \cup { ("motor_armed" :> v) : v \in BOOLEAN }
    \cup { ("roll" :> 450) @@ ("altitude" :> 4000), ("mode" :> <<"ARMED">>) }

Ports == { "COM3", "", "No Connection" }

\* the port selector with a second device, for switching ports
LinkPorts == Ports \cup {"COM4"}

\* chat messages typed by the user: vocabulary tokens (one with blanks and
\* capitals), the chat's own keywords, a question, and two unknown names,
\* one of which holds the letters "ne"
Messages ==
    { <<"motor_on">>, <<" ", "MOTOR_ON", " ">>, <<"reset">>,
      <<"takeoff_start">>, <<"connect">>, <<"disconnect">>, <<"status">>,
      <<"help">>, <<"hover", "?">>, <<"hover">>, <<"engine_start">> }

----------------------------------------------------------------------------
(* SerialCommunication *)

\* one emission of a Qt signal
Signal(name, ok, text) == [name |-> name, ok |-> ok, text |-> text]

is_connected == serial_port # NoPort

\* connect() that opens the new port without closing the old one
ConnectKeepsOld(port_name) ==
    /\ op' = "connect"
    /\ NoCommand
    /\ UNCHANGED llmVars
    /\ \/ /\ port_name \in {"", "No Connection"}
          /\ UNCHANGED serialVars
          /\ signals' = <<>>
       \/ /\ port_name \notin {"", "No Connection"}
          /\ serial_port' = port_name
          /\ read_timer' = TRUE
          /\ signals' = <<Signal("connection_status", TRUE, "Connected to")>>
       \/ /\ port_name \notin {"", "No Connection"}
          /\ UNCHANGED serialVars
          /\ signals' = <<Signal("connection_status", FALSE, "Failed to connect")>>
    /\ UNCHANGED <<line, telemetry_data, hudVars, now>>

\* SerialCommunication.connect(port_name); serial.Serial(...) opens or raises
connect(port_name) ==
    LET closing == IF is_connected
                   THEN <<Signal("connection_status", FALSE, "Disconnected")>>
                   ELSE <<>>
        timer == IF is_connected THEN FALSE ELSE read_timer
    IN  /\ op' = "connect"
        /\ NoCommand
        /\ UNCHANGED llmVars
        /\ \/ /\ port_name \in {"", "No Connection"}
              /\ serial_port' = NoPort
              /\ read_timer' = timer
              /\ signals' = closing
           \/ /\ port_name \notin {"", "No Connection"}
              /\ serial_port' = port_name
              /\ read_timer' = TRUE
              /\ signals' = closing \o <<Signal("connection_status", TRUE, "Connected to")>>
           \/ /\ port_name \notin {"", "No Connection"}
              /\ serial_port' = NoPort
              /\ read_timer' = timer
              /\ signals' = closing \o <<Signal("connection_status", FALSE, "Failed to connect")>>
        /\ UNCHANGED <<line, telemetry_data, hudVars, now>>

\* disconnect() that reports "Disconnected" on every call
DisconnectAlwaysEmits ==
    /\ read_timer' = FALSE
    /\ serial_port' = NoPort
    /\ signals' = <<Signal("connection_status", FALSE, "Disconnected")>>

\* disconnect() that leaves the read timer running
DisconnectKeepsTimer ==
    IF serial_port # NoPort
    THEN /\ UNCHANGED read_timer
         /\ serial_port' = NoPort
         /\ signals' = <<Signal("connection_status", FALSE, "Disconnected")>>
    ELSE /\ UNCHANGED serialVars
         /\ signals' = <<>>

\* the body of SerialCommunication.disconnect()
disconnect_port ==
    IF serial_port # NoPort
    THEN /\ read_timer' = FALSE
         /\ serial_port' = NoPort
         /\ signals' = <<Signal("connection_status", FALSE, "Disconnected")>>
    ELSE /\ UNCHANGED serialVars
         /\ signals' = <<>>

\* SerialCommunication.disconnect() called by the port selector
\* (_on_port_changed, "No Connection") or by closeEvent
disconnect ==
    /\ op' = "disconnect"
    /\ NoCommand
    /\ UNCHANGED llmVars
    /\ disconnect_port
    /\ UNCHANGED <<line, telemetry_data, hudVars, now>>

\* `if telemetry_data is not None:`
TruthyNotNone(r) == r.some

\* `if telemetry_data:` - neither None nor an empty dict
Truthy(r) == r.some /\ DOMAIN r.data # {}

\* SerialCommunication._read_data, the 100 ms read_timer callback, with
\* MainWindow._handle_telemetry_data run by the data_received signal
_read_data ==
    /\ read_timer
    /\ op' = "_read_data"
    /\ NoCommand
    /\ UNCHANGED llmVars
    /\ UNCHANGED <<serialVars, now>>
    /\ IF ~is_connected
       THEN /\ line' = <<>> /\ telemetry_data' = None /\ signals' = <<>>
            /\ UNCHANGED hudVars
       ELSE \/ \* in_waiting = 0
               /\ line' = <<>> /\ telemetry_data' = None /\ signals' = <<>>
               /\ UNCHANGED hudVars
            \/ \* in_waiting, readline() or decode() raises
               /\ line' = <<>> /\ telemetry_data' = None
               /\ signals' = <<Signal("connection_status", FALSE, "Read error")>>
               /\ UNCHANGED hudVars
            \/ \E w \in WireLines :
                 /\ line' = strip(w)
                 /\ IF strip(w) = <<>>
                    THEN /\ telemetry_data' = None /\ signals' = <<>>
                         /\ UNCHANGED hudVars
                    ELSE \E parsed \in {_parse_telemetry(strip(w))} :
                         /\ telemetry_data' = parsed
                         /\ IF Truthy(parsed)
                            THEN /\ signals' = <<Signal("data_received", TRUE, "frame")>>
                                 /\ update_from_telemetry(parsed.data)
                            ELSE /\ signals' = <<>>
                                 /\ UNCHANGED hudVars

\* a command frame without its terminator
EncodeNoNewline(command) == <<command>>

\* f"{command}\n".encode(): the bytes of one command frame
Encode(command) == <<command, "\n">>

\* SerialCommunication.send_command(command), returning success;
\* serial_port.write(...) completes or raises
send_command(command, success) ==
    /\ UNCHANGED serialVars
    /\ IF is_connected
       THEN \/ /\ success
               /\ written' = Encode(command)
               /\ signals' = <<>>
            \/ /\ ~success
               /\ written' = <<>>
               /\ signals' = <<Signal("connection_status", FALSE, "Send error")>>
       ELSE /\ ~success
            /\ written' = <<>>
            /\ signals' = <<>>

----------------------------------------------------------------------------
(* LocalLLM *)

\* LocalLLM.ask(question): the fallback answer while the model is not ready
\* (starting the loader if none runs), else the question joins the queue
ask(question) ==
    IF ~is_ready
    THEN /\ is_loading' = TRUE
         /\ UNCHANGED <<is_ready, request_queue, worker_prompt, worker_started>>
    ELSE /\ Len(request_queue) < MaxQueue
         /\ request_queue' = Append(request_queue, question)
         /\ UNCHANGED <<is_ready, is_loading, worker_prompt, worker_started>>

\* what ask() returns
AskResponse == IF is_ready THEN "llm thinking" ELSE "llm fallback"

\* LocalLLM._load_model on the loader thread: the model loads, both flags
\* are set one after the other and the worker thread is started, or the
\* load raises
_load_model ==
    /\ is_loading
    /\ op' = "_load_model"
    /\ NoCommand
    /\ signals' = <<>>
    /\ UNCHANGED <<serialVars, line, telemetry_data, hudVars, now>>
    /\ UNCHANGED <<request_queue, worker_prompt>>
    /\ \/ /\ ~is_ready
          /\ is_ready' = TRUE
          /\ UNCHANGED <<is_loading, worker_started>>
       \/ /\ is_ready
          /\ is_loading' = FALSE /\ worker_started' = TRUE
          /\ UNCHANGED is_ready
       \/ /\ ~is_ready
          /\ is_loading' = FALSE
          /\ UNCHANGED <<is_ready, worker_started>>

\* mutant: the worker takes the newest question first
QueueGetNewest(q) == [item |-> q[Len(q)], rest |-> SubSeq(q, 1, Len(q) - 1)]

\* request_queue.get(): the oldest question and the queue without it
QueueGet(q) == [item |-> Head(q), rest |-> Tail(q)]

\* LocalLLM._process_requests on the worker thread: take a question from
\* the queue, or answer the one taken through response_ready
_process_requests ==
    /\ worker_started
    /\ op' = "_process_requests"
    /\ NoCommand
    /\ UNCHANGED <<serialVars, line, telemetry_data, hudVars, now>>
    /\ UNCHANGED <<is_ready, is_loading, worker_started>>
    /\ \/ /\ worker_prompt = <<>> /\ request_queue # <<>>
          /\ worker_prompt' = <<QueueGet(request_queue).item>>
          /\ request_queue' = QueueGet(request_queue).rest
          /\ signals' = <<>>
       \/ /\ worker_prompt # <<>>
          /\ worker_prompt' = <<>>
          /\ signals' = <<Signal("response_ready", TRUE, "answer")>>
          /\ UNCHANGED request_queue

----------------------------------------------------------------------------
(* MainWindow: chat commands *)

\* a command table that also knows "hover"
CommandsWithHover ==
    {"motor_on", "motor_off", "takeoff_start", "landing_start", "go_around",
     "reset", "hover"}

\* the keys (and values) of airdarwin_commands
airdarwin_commands ==
    {"motor_on", "motor_off", "takeoff_start", "landing_start", "go_around",
     "reset"}

\* str.lower() of one atom
LowerAtom(a) == IF a = "MOTOR_ON" THEN "motor_on" ELSE a

\* s.lower()
lower(s) == [i \in 1..Len(s) |-> LowerAtom(s[i])]

\* any(word in cmd for word in ['nedir', 'nasıl', 'ne', 'niye', 'hangi', 'kaç']):
\* the atoms of Messages that hold one of the words (each holds "ne")
HasQuestionWord(cmd) ==
    \E i \in 1..Len(cmd) : cmd[i] \in {"connect", "disconnect", "engine_start"}

\* message.strip().endswith('?')
EndsWithQuestionMark(message) ==
    strip(message) # <<>> /\ strip(message)[Len(strip(message))] = "?"

\* the chat response, with the command it names
Response(text, cmd) == [text |-> text, cmd |-> cmd]

\* MainWindow._handle_user_message(message)
_handle_user_message(message) ==
    LET cmd == lower(strip(message))
        toLLM == /\ ~(Len(cmd) = 1 /\ cmd[1] \in airdarwin_commands)
                 /\ cmd \notin {<<"connect">>, <<"disconnect">>, <<"status">>,
                                 <<"help">>}
                 /\ (EndsWithQuestionMark(message) \/ HasQuestionWord(cmd))
    IN  /\ op' = "_handle_user_message"
        /\ UNCHANGED <<line, telemetry_data, hudVars, now>>
        /\ IF toLLM THEN ask(message) ELSE UNCHANGED llmVars
        /\ IF Len(cmd) = 1 /\ cmd[1] \in airdarwin_commands
           THEN IF is_connected
                THEN \E success \in BOOLEAN :
                        /\ send_command(cmd[1], success)
                        /\ response' = Response(IF success THEN "sent"
                                                          ELSE "failed to send", cmd)
                ELSE /\ response' = Response("not connected", cmd)
                     /\ written' = <<>> /\ signals' = <<>>
                     /\ UNCHANGED serialVars
           ELSE IF cmd = <<"disconnect">>
           THEN /\ response' = Response("disconnected", cmd)
                /\ written' = <<>>
                /\ disconnect_port
           ELSE /\ written' = <<>> /\ signals' = <<>>
                /\ UNCHANGED serialVars
                /\ response' =
                      IF cmd = <<"connect">> THEN Response("select port", cmd)
                      ELSE IF cmd = <<"status">>
                      THEN Response(IF is_connected THEN "status connected"
                                                    ELSE "status not connected", cmd)
                      ELSE IF cmd = <<"help">> THEN Response("help", cmd)
                      ELSE IF EndsWithQuestionMark(message) \/ HasQuestionWord(cmd)
                      THEN Response(AskResponse, cmd)
                      ELSE Response("not recognized", cmd)

----------------------------------------------------------------------------
(* Specifications *)

\* the whole pipeline: transport, decoder, HUD and the two timers
Next ==
    \/ \E port_name \in Ports : connect(port_name)
    \/ disconnect
    \/ _read_data
    \/ _check_connection_status
    \/ Tick

Spec == Init /\ [][Next]_vars

\* the transport under the port selector, the chat and the read timer
NextLink ==
    \/ \E port_name \in LinkPorts : connect(port_name)
    \/ disconnect
    \/ \E message \in Messages : _handle_user_message(message)
    \/ _read_data

SpecLink == Init /\ [][NextLink]_vars

\* the assistant: the chat, the loader thread and the worker thread
NextLLM ==
    \/ \E message \in Messages : _handle_user_message(message)
    \/ _load_model
    \/ _process_requests

SpecLLM == Init /\ [][NextLLM]_vars

\* the HUD driven directly through update_from_telemetry(data)
HUDUpdate ==
    \E data \in HUDFrames :
        /\ update_from_telemetry(data)
        /\ op' = "update_from_telemetry"
        /\ NoCommand
        /\ UNCHANGED llmVars
        /\ signals' = <<>>
        /\ UNCHANGED <<serialVars, line, telemetry_data, now>>

NextHUD ==
    \/ HUDUpdate
    \/ _check_connection_status
    \/ Tick

SpecHUD == Init /\ [][NextHUD]_vars

\* the decoder as a function of its line
InitParse ==
    /\ InitSerial /\ InitHUD /\ InitLLM
    /\ line \in ParseLines
    /\ telemetry_data = None /\ signals = <<>> /\ op = "__init__"
    /\ written = <<>> /\ response = NoResponse
    /\ now = StartTime

Parse ==
    /\ op = "__init__"
    /\ telemetry_data' = _parse_telemetry(line)
    /\ op' = "_parse_telemetry"
    /\ NoCommand
    /\ UNCHANGED llmVars
    /\ UNCHANGED <<serialVars, line, signals, hudVars, now>>

NextParse == Parse

SpecParse == InitParse /\ [][NextParse]_vars

----------------------------------------------------------------------------
(* What the properties read off a line and off an alert report *)

\* the pipe-separated fields of a line that has the prefix
FieldsOfLine == split(SubSeq(line, Len(SumPrefix) + 1, Len(line)), "|")
KeyOf(part) == split1(part, ":")[1]
ValueOf(part) == split1(part, ":")[2]

\* the grammar of section 4.2: the frame fields one well-formed key:value
\* field stands for, as a dict; empty for anything else
Decoded(part) ==
    IF ~Contains(part, ":") THEN <<>>
    ELSE IF KeyOf(part) = <<"AS">> /\ FloatOk(ValueOf(part))
    THEN ("airspeed" :> float(ValueOf(part)))
    ELSE IF KeyOf(part) = <<"Alt">> /\ FloatOk(ValueOf(part))
    THEN ("altitude" :> float(ValueOf(part)))
    ELSE IF KeyOf(part) = <<"Hdg">> /\ FloatOk(ValueOf(part))
    THEN ("heading" :> float(ValueOf(part)))
    ELSE IF /\ KeyOf(part) = <<"Att">>
            /\ Len(split(ValueOf(part), ",")) = 2
            /\ \A i \in 1..2 : FloatOk(split(ValueOf(part), ",")[i])
    THEN ("roll" :> float(split(ValueOf(part), ",")[1]))
         @@ ("pitch" :> float(split(ValueOf(part), ",")[2]))
    ELSE IF KeyOf(part) = <<"Thr">> /\ IntOk(ValueOf(part))
    THEN ("throttle" :> int(ValueOf(part)))
    ELSE IF KeyOf(part) = <<"WP">> /\ IntOk(ValueOf(part))
    THEN ("waypoint" :> int(ValueOf(part)))
    ELSE IF KeyOf(part) = <<"Saf">>
    THEN ("safety_state" :> ValueOf(part))
    ELSE IF KeyOf(part) = <<"Sys">>
    THEN ("gps_ok" :> Contains(ValueOf(part), "G"))
         @@ ("imu_ok" :> Contains(ValueOf(part), "I"))
         @@ ("link_ok" :> Contains(ValueOf(part), "L"))
         @@ ("motor_armed" :> Contains(ValueOf(part), "M"))
    ELSE <<>>

RecognizedKeys ==
    { <<"AS">>, <<"Alt">>, <<"Hdg">>, <<"Att">>, <<"Thr">>, <<"WP">>,
      <<"Saf">>, <<"Sys">> }
\* the fields each numeric key fills
NumericFields(key) ==
    IF key = <<"AS">> THEN {"airspeed"}
    ELSE IF key = <<"Alt">> THEN {"altitude"}
    ELSE IF key = <<"Hdg">> THEN {"heading"}
    ELSE IF key = <<"Att">> THEN {"roll", "pitch"}
    ELSE IF key = <<"Thr">> THEN {"throttle"}
    ELSE IF key = <<"WP">> THEN {"waypoint"}
    ELSE {}
WellFormed(part) ==
    Contains(part, ":") /\ KeyOf(part) \in RecognizedKeys /\ DOMAIN Decoded(part) # {}
\* a numeric field whose value does not fit its grammar (Att: two
\* components, one of them no float)
Undecodable(part) ==
    /\ Contains(part, ":")
    /\ NumericFields(KeyOf(part)) # {}
    /\ DOMAIN Decoded(part) = {}
    /\ KeyOf(part) = <<"Att">> => Len(split(ValueOf(part), ",")) = 2
\* a numeric field whose value is not a number at all
Malformed(part) ==
    /\ Undecodable(part)
    /\ IF KeyOf(part) = <<"Att">>
       THEN \E i \in 1..2 : ~FloatOk(split(ValueOf(part), ",")[i])
       ELSE ~FloatOk(ValueOf(part))

\* how many entries of an alert list carry the tag
Count(alerts, tag) == Cardinality({ i \in 1..Len(alerts) : alerts[i].tag = tag })

Evaluated == op = "update_from_telemetry"

----------------------------------------------------------------------------
(* Properties *)

\* C1: when the evaluation runs while the link status is NO DATA, the report
\* left by update_from_telemetry is the single "no telemetry" critical alert,
\* with no warning and no recommendation.
C1_NoDataReportIsSingleAlert ==
    (Evaluated /\ connection_status = "NO DATA") =>
        /\ critical_alerts = <<Alert("NO TELEMETRY DATA", 0)>>
        /\ warnings = <<>>
        /\ smart_recommendations = <<>>

\* C2: a SUM: line with one malformed numeric field and otherwise
\* well-formed fields decodes to a frame without the malformed field and
\* with every other field at its value.
C2_PartialFailureIsolation ==
    (op = "_parse_telemetry" /\ startswith(line, SumPrefix)) =>
        \A i \in 1..Len(FieldsOfLine) :
            ( /\ Malformed(FieldsOfLine[i])
              /\ Len(FieldsOfLine) > 1
              /\ \A j \in 1..Len(FieldsOfLine) :
                    j # i => /\ WellFormed(FieldsOfLine[j])
                             /\ KeyOf(FieldsOfLine[j]) # KeyOf(FieldsOfLine[i]) )
            => /\ telemetry_data.some
               /\ NumericFields(KeyOf(FieldsOfLine[i])) \cap DOMAIN telemetry_data.data = {}
               /\ \A j \in 1..Len(FieldsOfLine) :
                     j # i =>
                        \A f \in DOMAIN Decoded(FieldsOfLine[j]) :
                            /\ f \in DOMAIN telemetry_data.data
                            /\ telemetry_data.data[f] = Decoded(FieldsOfLine[j])[f]

\* C3: whenever the critical list holds the GPS-critical entry, the warning
\* list holds no GPS-limited entry.
C3_GpsWarningSuppressed ==
    AnyHas(critical_alerts, "GPS CRITICAL") => ~AnyHas(warnings, "GPS LIMITED")

C3_Witness ==
    /\ Evaluated /\ gps_sats = 3
    /\ AnyHas(critical_alerts, "GPS CRITICAL")
    /\ ~AnyHas(warnings, "GPS LIMITED")

\* C4: with 15 <= battery < 25 and the link not NO DATA, the evaluation puts
\* the battery-low entry in the warning list and no battery entry in the
\* critical list.
C4_BatteryLowIsWarning ==
    (Evaluated /\ battery >= 150 /\ battery < 250 /\ connection_status # "NO DATA") =>
        /\ AnyHas(warnings, "LOW BATTERY")
        /\ ~AnyHas(critical_alerts, "LOW BATTERY")
        /\ ~AnyHas(critical_alerts, "CRITICAL BATTERY")

\* C5: armed with airspeed <= 28 km/h, the evaluation emits the stall-critical
\* alert and no "approaching stall" warning; no warning stands beside the
\* critical alert of its subsystem (stall, GPS, battery).
C5_StallWarningSuppressed ==
    /\ (Evaluated /\ armed /\ airspeed <= CRITICAL_MIN_AIRSPEED) =>
          /\ AnyHas(critical_alerts, "STALL CRITICAL")
          /\ ~AnyHas(warnings, "SPEED LOW")
    /\ AnyHas(critical_alerts, "STALL CRITICAL") => ~AnyHas(warnings, "SPEED LOW")
    /\ AnyHas(critical_alerts, "GPS CRITICAL") => ~AnyHas(warnings, "GPS LIMITED")
    /\ AnyHas(critical_alerts, "CRITICAL BATTERY") => ~AnyHas(warnings, "LOW BATTERY")

\* C6: with battery < 15 the critical list holds exactly one battery-critical
\* entry and no battery-low entry; no report holds both battery entries.
C6_BatteryCriticalExclusive ==
    /\ (Evaluated /\ battery < 150) =>
          /\ Count(critical_alerts, "CRITICAL BATTERY") = 1
          /\ Count(critical_alerts, "LOW BATTERY") = 0
    /\ ~( /\ AnyHas(critical_alerts \o warnings, "CRITICAL BATTERY")
          /\ AnyHas(critical_alerts \o warnings, "LOW BATTERY") )

\* scenario 2: battery 10, armed, airspeed 40
C6_Witness ==
    /\ Evaluated /\ battery = 100 /\ armed /\ airspeed = 400
    /\ Count(critical_alerts, "CRITICAL BATTERY") = 1
    /\ Count(critical_alerts, "LOW BATTERY") = 0

C8_ModeIsFirstSegment ==
    ( /\ op = "_parse_telemetry" /\ startswith(line, SumPrefix)
      /\ FieldsOfLine[1] # <<>> /\ ~Contains(FieldsOfLine[1], ":")
      /\ \A i \in 2..Len(FieldsOfLine) : ~Undecodable(FieldsOfLine[i]) )
    => /\ telemetry_data.some
       /\ "mode" \in DOMAIN telemetry_data.data
       /\ telemetry_data.data["mode"] = FieldsOfLine[1]

\* C9: a line that does not begin with SUM: is decoded to nothing, emits no
\* data_received event, and leaves the flight state, the alert lists and the
\* last-frame timestamp as they were.
C9_NoPrefixNoEffect ==
    [][ (op' = "_read_data" /\ ~startswith(line', SumPrefix)) =>
            /\ telemetry_data' = None
            /\ \A i \in 1..Len(signals') : signals'[i].name # "data_received"
            /\ UNCHANGED hudVars ]_vars

C9_Witness ==
    /\ op = "_read_data" /\ line # <<>> /\ ~startswith(line, SumPrefix)
    /\ telemetry_data = None /\ signals = <<>>
    /\ last_data_time > 0

\* C10: a liveness check leaves NO DATA exactly when now - last_data_time
\* exceeds the 5 s timeout (strictly) and RECEIVING otherwise, whatever the
\* transport's state.
C10_LivenessByElapsedTime ==
    op = "_check_connection_status" =>
        /\ now - last_data_time > 5 => connection_status = "NO DATA"
        /\ now - last_data_time <= 5 => connection_status = "RECEIVING"

\* frames stopped while the transport stays connected
C10_Witness ==
    /\ op = "_check_connection_status" /\ is_connected
    /\ last_data_time > 0 /\ now - last_data_time > 5
    /\ connection_status = "NO DATA"

----------------------------------------------------------------------------
(* The transport and the chat commands *)

\* the last signal the last handler emitted reports an I/O failure
IoFailureReported ==
    /\ signals # <<>>
    /\ signals[Len(signals)].text \in {"Send error", "Read error"}

\* C11: after a write that raises in send_command or a read that raises in
\* _read_data the transport is Disconnected: is_connected() is false and
\* the read timer is stopped.
C11_IoFailureDisconnects ==
    IoFailureReported => (~is_connected /\ ~read_timer)

\* the one event disconnect() emits
DisconnectedEvent == Signal("connection_status", FALSE, "Disconnected")

\* a step that calls disconnect(): from the port selector or closeEvent,
\* or from the chat keyword
CallsDisconnect ==
    \/ op' = "disconnect"
    \/ op' = "_handle_user_message" /\ response'.text = "disconnected"

\* C12 as stated: every call of disconnect(), also when already
\* disconnected, leaves the transport Disconnected with polling stopped and
\* emits exactly one connection_status(False, "Disconnected").
C12_DisconnectAlwaysEmits ==
    [][ CallsDisconnect =>
            /\ ~is_connected' /\ ~read_timer'
            /\ signals' = <<DisconnectedEvent>> ]_vars

\* C12 amended: every call of disconnect() leaves the transport Disconnected
\* with polling stopped; it emits one connection_status(False,
\* "Disconnected") when a port was open and nothing when none was.
C12_DisconnectIdempotent ==
    [][ CallsDisconnect =>
            /\ ~is_connected' /\ ~read_timer'
            /\ signals' = IF is_connected THEN <<DisconnectedEvent>> ELSE <<>> ]_vars

\* disconnect() was called with no port open and emitted nothing
C12_Witness ==
    op = "disconnect" /\ signals = <<>> /\ ~is_connected /\ ~read_timer

\* C13 as stated: connect() while already connected closes the previous
\* connection and fails: it does not end Connected.
C13_ConnectWhileConnectedFails ==
    [][ (op' = "connect" /\ is_connected) =>
            /\ signals' # <<>> /\ signals'[1] = DisconnectedEvent
            /\ ~is_connected' ]_vars

\* C13 amended: connect() while already connected first closes the previous
\* connection, reporting "Disconnected", and then carries on as a connect
\* from the Disconnected state: it ends Connected with polling active and a
\* "Connected to" event when the port opens, and Disconnected with polling
\* stopped when the name is empty or the port cannot be opened.
C13_ConnectWhileConnectedSwitches ==
    [][ (op' = "connect" /\ is_connected) =>
            /\ signals' # <<>> /\ signals'[1] = DisconnectedEvent
            /\ \/ /\ is_connected' /\ read_timer'
                  /\ signals' = <<DisconnectedEvent,
                                  Signal("connection_status", TRUE, "Connected to")>>
               \/ /\ ~is_connected' /\ ~read_timer'
                  /\ \/ signals' = <<DisconnectedEvent>>
                     \/ signals' = <<DisconnectedEvent,
                                     Signal("connection_status", FALSE,
                                            "Failed to connect")>> ]_vars

\* connect("COM4") was called with a port open and ended Connected to COM4
C13_Witness ==
    /\ op = "connect" /\ serial_port = "COM4" /\ read_timer
    /\ Len(signals) = 2 /\ signals[1] = DisconnectedEvent /\ signals[2].ok

\* a _read_data step that took something from the serial handle: a line or
\* a read error
ReadsFromPort ==
    op' = "_read_data" /\ (line' # <<>> \/ signals' # <<>>)

\* C14: the read timer is active only while a port is open, and a timer
\* callback reads from the serial handle only with a port open: after
\* disconnect() returns nothing is read until a later connect succeeds.
C14_NoReadAfterDisconnect ==
    [][ /\ read_timer' => is_connected'
        /\ CallsDisconnect => (~read_timer' /\ ~is_connected')
        /\ ReadsFromPort => (is_connected /\ read_timer) ]_vars

\* disconnect() returned on a link that had delivered a line
C14_Witness ==
    /\ op = "disconnect" /\ signals = <<DisconnectedEvent>>
    /\ line # <<>> /\ ~read_timer /\ ~is_connected

\* the six command tokens of the vocabulary
Vocabulary ==
    {"motor_on", "motor_off", "takeoff_start", "landing_start", "go_around",
     "reset"}

\* the command named by the message the step handles is a vocabulary token
NamesToken == Len(response'.cmd) = 1 /\ response'.cmd[1] \in Vocabulary

\* the words the chat answers itself
ChatKeywords == {<<"connect">>, <<"disconnect">>, <<"status">>, <<"help">>}

\* the message the step handles is routed to the assistant as a question
IsQuestion ==
    \/ response'.cmd # <<>> /\ response'.cmd[Len(response'.cmd)] = "?"
    \/ HasQuestionWord(response'.cmd)

C17_WritesAreVocabularyFrames ==
    /\ written # <<>> =>
          /\ Len(written) = 2 /\ written[1] \in Vocabulary /\ written[2] = "\n"
          /\ response.text = "sent"
    /\ response.text = "sent" =>
          /\ Len(response.cmd) = 1 /\ response.cmd[1] \in Vocabulary
          /\ written = <<response.cmd[1], "\n">>

\* " MOTOR_ON " was dispatched on an open link and wrote "motor_on\n"
C17_Witness ==
    /\ response = Response("sent", <<"motor_on">>)
    /\ written = <<"motor_on", "\n">> /\ is_connected

----------------------------------------------------------------------------
(* Frames and their effect on the flight state *)

\* a _read_data step that read a line the decoder rejected: the result is
\* None or carries no field
ReadsRejectedLine ==
    /\ op' = "_read_data" /\ line' # <<>>
    /\ (~telemetry_data'.some \/ DOMAIN telemetry_data'.data = {})

\* C15: a timer callback that reads a line the decoder rejects leaves the
\* transport Connected with polling active and leaves every flight-state
\* field, every alert list and the last-frame timestamp unchanged, and emits
\* no frame; the rejected lines show only through the liveness check, which
\* reports NO DATA once more than data_timeout seconds have passed since
\* the last applied frame.
C15_RejectedLineNoEffect ==
    [][ /\ ReadsRejectedLine =>
              /\ is_connected' /\ read_timer' /\ UNCHANGED serialVars
              /\ UNCHANGED hudVars
              /\ signals' = <<>>
        /\ (op' = "_check_connection_status" /\ last_data_time' > 0
                /\ now' - last_data_time' > data_timeout) =>
              connection_status' = "NO DATA" ]_vars

\* a malformed line was read and dropped on a link that had applied a frame
\* more than data_timeout seconds earlier
C15_Witness ==
    /\ op = "_read_data" /\ line # <<>> /\ ~telemetry_data.some
    /\ is_connected /\ read_timer
    /\ last_data_time > 0 /\ now - last_data_time > data_timeout
    /\ connection_status = "NO DATA"

\* a _read_data step that applied a frame
AppliesFrame == op' = "_read_data" /\ Truthy(telemetry_data')

\* the field is carried by the frame, and then takes the frame's value, or
\* is absent from it, and then keeps its value
CarriedOrKept(key, before, after) ==
    IF key \in DOMAIN telemetry_data'.data
    THEN after = telemetry_data'.data[key]
    ELSE after = before

\* C18: applying a frame changes exactly the fields the frame carries: a
\* field absent from the frame (airspeed, altitude, heading, roll, pitch,
\* throttle, safety_state, mode, armed, battery, and the satellite count when
\* the frame has no gps_ok flag) has the value after update_from_telemetry
\* that it had before.
C18_AbsentFieldsKept ==
    [][ AppliesFrame =>
            /\ CarriedOrKept("airspeed", airspeed, airspeed')
            /\ CarriedOrKept("altitude", altitude, altitude')
            /\ CarriedOrKept("heading", heading, heading')
            /\ CarriedOrKept("battery", battery, battery')
            /\ CarriedOrKept("mode", mode, mode')
            /\ CarriedOrKept("motor_armed", armed, armed')
            /\ CarriedOrKept("roll", roll, roll')
            /\ CarriedOrKept("pitch", pitch, pitch')
            /\ CarriedOrKept("throttle", throttle, throttle')
            /\ CarriedOrKept("safety_state", safety_state, safety_state')
            /\ IF "gps_ok" \in DOMAIN telemetry_data'.data
               THEN gps_sats' = IF telemetry_data'.data["gps_ok"] THEN 8 ELSE 3
               ELSE gps_sats' = gps_sats ]_vars

\* a frame carrying only a mode was applied and left the altitude, the armed
\* flag and the satellite count of earlier frames in place
C18_Witness ==
    /\ op = "_read_data" /\ Truthy(telemetry_data)
    /\ DOMAIN telemetry_data.data = {"mode"}
    /\ altitude # 0 /\ armed /\ gps_sats = 8

\* C19 as stated: max_speed and min_speed each change only in an update
\* where the vehicle is armed and airspeed is above the 5 km/h noise floor.
C19_SpeedExtremesAboveNoiseFloor ==
    [][ (max_speed' # max_speed \/ min_speed' # min_speed) =>
            /\ op' = "update_from_telemetry"
            /\ armed' /\ airspeed' > 50 ]_vars

\* C19 amended: min_speed changes only in an update where the vehicle is
\* armed and airspeed is above 5 km/h (and below the previous minimum);
\* max_speed changes only in an update where the vehicle is armed and
\* airspeed is above the previous maximum, with no noise floor; otherwise
\* each keeps its value.
C19_SpeedExtremesWhileArmed ==
    [][ /\ min_speed' # min_speed =>
              /\ op' = "update_from_telemetry" /\ armed'
              /\ airspeed' > 50 /\ airspeed' < min_speed
              /\ min_speed' = airspeed'
        /\ max_speed' # max_speed =>
              /\ op' = "update_from_telemetry" /\ armed'
              /\ airspeed' > max_speed
              /\ max_speed' = airspeed' ]_vars

\* armed at 3 km/h: the maximum has moved to 3 km/h, the minimum has not
C19_Witness ==
    /\ op = "update_from_telemetry" /\ armed /\ airspeed = 30
    /\ max_speed = 30 /\ min_speed = 9990

\* the condition under which _analyze_smart_telemetry appends the entry,
\* read on the current fields
CriticalHolds(e) ==
    CASE e.tag = "CRITICAL BATTERY" ->
            battery < 150 /\ e.arg = (battery * 3) \div 100
      [] e.tag = "LOW BATTERY" ->
            battery >= 150 /\ battery < 250 /\ e.arg = (battery * 4) \div 100
      [] e.tag = "GPS CRITICAL" -> gps_sats < 4
      [] e.tag = "ATTITUDE CRITICAL" -> Abs(roll) > CRITICAL_MAX_ROLL
      [] e.tag = "STALL CRITICAL" -> airspeed <= CRITICAL_MIN_AIRSPEED /\ armed
      [] OTHER -> FALSE

WarningHolds(e) ==
    CASE e.tag = "GPS LIMITED" ->
            gps_sats < GPS_MIN_SATELLITES /\ gps_sats >= 4 /\ e.arg = gps_sats
      [] e.tag = "GPS ACCURACY LOW" -> hdop > GPS_MAX_HDOP /\ e.arg = hdop
      [] e.tag = "SPEED LOW" -> armed /\ airspeed < STALL_WARNING_SPEED
      [] e.tag = "SPEED HIGH" ->
            /\ airspeed * 10 > CRITICAL_MAX_AIRSPEED * 9
            /\ ~(armed /\ airspeed < STALL_WARNING_SPEED)
      [] e.tag = "HIGH ALTITUDE" -> altitude > 3500
      [] e.tag = "VERY LOW" -> armed /\ altitude < 30 /\ altitude <= 3500
      [] OTHER -> FALSE

RecommendationHolds(e) ==
    CASE e.tag = "Systems ready - Safe for takeoff" ->
            mode = <<"ARMED">> /\ critical_alerts = <<>>
      [] e.tag = "Good climb" -> mode = <<"TAKEOFF">> /\ altitude > 300
      [] e.tag = "Consider RTL mode" -> battery < 400 /\ altitude > 800
      [] OTHER -> FALSE

TipHolds(e) ==
    CASE e.tag = "TIP: Smoother controls" ->
            armed /\ distance_traveled = 0
      [] OTHER -> FALSE

StatusHolds(e) ==
    CASE e.tag = "Signal: EXCELLENT" -> rssi > -40 /\ e.arg = rssi
      [] e.tag = "Signal: GOOD" -> rssi <= -40 /\ rssi > -60 /\ e.arg = rssi
      [] e.tag = "Signal: WEAK" -> rssi <= -60 /\ e.arg = rssi
      [] e.tag = "Temp: NORMAL" -> 100 < temperature /\ temperature < 400
      [] e.tag = "CPU: NORMAL" -> cpu_load < 80 /\ e.arg = cpu_load
      [] e.tag = "Memory: NORMAL" -> memory_usage < 85 /\ e.arg = memory_usage
      [] OTHER -> FALSE

\* no two entries of the list have the same text
NoRepeat(alerts) ==
    \A i, j \in 1..Len(alerts) : alerts[i].tag = alerts[j].tag => i = j

\* C20: the alert report is regenerated wholesale: once a frame has been
\* applied, every entry of the critical, warning, recommendation,
\* performance-tip and system-status lists is one whose condition holds in
\* the current flight state, with the numbers of the current state, and no
\* entry is there twice: none survives from an earlier evaluation.
C20_ReportRegenerated ==
    last_data_time > 0 =>
        /\ \A i \in 1..Len(critical_alerts) : CriticalHolds(critical_alerts[i])
        /\ \A i \in 1..Len(warnings) : WarningHolds(warnings[i])
        /\ \A i \in 1..Len(smart_recommendations) :
              RecommendationHolds(smart_recommendations[i])
        /\ \A i \in 1..Len(performance_tips) : TipHolds(performance_tips[i])
        /\ \A i \in 1..Len(system_status) : StatusHolds(system_status[i])
        /\ NoRepeat(critical_alerts) /\ NoRepeat(warnings)
        /\ NoRepeat(smart_recommendations) /\ NoRepeat(performance_tips)
        /\ NoRepeat(system_status) /\ Len(system_status) = 4

\* an earlier update, armed at 20 km/h, raised SPEED LOW and STALL CRITICAL;
\* the last one, at 40 km/h, left neither
C20_Witness ==
    /\ op = "update_from_telemetry" /\ armed
    /\ min_speed = 200 /\ airspeed = 400
    /\ Count(warnings, "SPEED LOW") = 0
    /\ Count(critical_alerts, "STALL CRITICAL") = 0
    /\ Len(performance_tips) = 1 /\ Len(system_status) = 4

----------------------------------------------------------------------------
(* The evaluation as a function of the flight state *)

\* the values the wall clock takes: start-up and one step later
ClockValues == {StartTime} \cup { StartTime + d : d \in Elapse }

\* the fields _analyze_smart_telemetry reads in the step, with the wall
\* clock at t instead of now
FieldsAtClock(t) ==
    [airspeed |-> airspeed', altitude |-> altitude', heading |-> heading',
     battery |-> battery', mode |-> mode', armed |-> armed', roll |-> roll',
     pitch |-> pitch', throttle |-> throttle', safety_state |-> safety_state',
     gps_sats |-> gps_sats', connection_status |-> connection_status,
     max_speed |-> max_speed, min_speed |-> min_speed, rssi |-> rssi,
     cpu_load |-> cpu_load, memory_usage |-> memory_usage, now |-> t]

\* C21: the evaluation is deterministic in the flight state: run on the
\* fields of an update at any other wall-clock time it produces the same
\* critical, warning and recommendation lists (and the same speed extremes)
\* as the update did; the clock reaches only the system-status figures.
C21_EvaluationIgnoresClock ==
    [][ op' = "update_from_telemetry" =>
            \A t \in ClockValues :
            \E st \in {FieldsAtClock(t)} :
            \E r \in {_analyze_smart_telemetry(st)} :
                /\ r.critical_alerts = critical_alerts'
                /\ r.warnings = warnings'
                /\ r.smart_recommendations = smart_recommendations'
                /\ r.performance_tips = performance_tips'
                /\ r.max_speed = max_speed'
                /\ r.min_speed = min_speed' ]_vars

\* an armed update after the clock has moved: its CPU figure is not the one
\* the same fields give at start-up time
C21_Witness ==
    /\ op = "update_from_telemetry" /\ armed /\ now > StartTime
    /\ last_data_time = now
    /\ cpu_load # 25 + Sin10[StartTime + 1]
    /\ system_status[3].arg = cpu_load

\* the recommendation for a vehicle ready on the ground
SafeForTakeoff == "Systems ready - Safe for takeoff"

\* C22 as stated: whenever the vehicle is armed (motor_armed flag set) and
\* the evaluation produced no critical alert, the recommendation list holds
\* the "safe for takeoff" suggestion; the list never holds more than one
\* entry.
C22_ArmedFlagReadyForTakeoff ==
    op = "update_from_telemetry" =>
        /\ (armed /\ critical_alerts = <<>>) =>
              AnyHas(smart_recommendations, SafeForTakeoff)
        /\ Len(smart_recommendations) <= 1

\* C22 amended: the recommendation list holds the "safe for takeoff"
\* suggestion exactly when the flight mode is ARMED and the evaluation
\* produced no critical alert, whatever the motor_armed flag; the list never
\* holds more than one entry.
C22_ArmedModeReadyForTakeoff ==
    op = "update_from_telemetry" =>
        /\ AnyHas(smart_recommendations, SafeForTakeoff)
              <=> (mode = <<"ARMED">> /\ critical_alerts = <<>>)
        /\ Len(smart_recommendations) <= 1

\* mode ARMED with the motor_armed flag clear and no critical alert: the
\* suggestion is there
C22_Witness ==
    /\ op = "update_from_telemetry" /\ mode = <<"ARMED">> /\ ~armed
    /\ critical_alerts = <<>>
    /\ smart_recommendations = <<Alert(SafeForTakeoff, 0)>>

----------------------------------------------------------------------------
(* The assistant *)

\* the questions ask() has accepted for the model and response_ready has
\* not answered yet
Outstanding == Len(request_queue) + Len(worker_prompt)

\* C23 as stated: at most one question accepted by ask() for the generative
\* backend is unanswered at any time.
C23_AtMostOneOutstanding == Outstanding <= 1

\* C23 amended: ask() accepts a question whenever the model is ready and
\* appends it to the queue, however many are waiting; the single worker
\* holds at most one question at a time, takes the questions in the order
\* they were accepted and emits one response_ready for each.
C23_QuestionsQueuedInOrder ==
    [][ /\ Len(worker_prompt') <= 1
        /\ Len(request_queue') > Len(request_queue) =>
              /\ op' = "_handle_user_message" /\ is_ready
              /\ response'.text = "llm thinking"
              /\ SubSeq(request_queue', 1, Len(request_queue)) = request_queue
              /\ Len(request_queue') = Len(request_queue) + 1
        /\ (worker_prompt' # worker_prompt /\ worker_prompt' # <<>>) =>
              /\ worker_prompt = <<>>
              /\ worker_prompt' = <<Head(request_queue)>>
              /\ request_queue' = Tail(request_queue)
        /\ (worker_prompt # <<>> /\ worker_prompt' = <<>>) =>
              /\ signals' = <<Signal("response_ready", TRUE, "answer")>>
              /\ UNCHANGED request_queue ]_vars

\* three questions are unanswered: one with the worker, two in the queue,
\* the older one first
C23_Witness ==
    /\ worker_prompt = <<<<"hover", "?">>>>
    /\ request_queue = << <<"engine_start">>, <<"hover", "?">> >>
    /\ is_ready /\ worker_started

----------------------------------------------------------------------------
(* Decoding and re-encoding *)

\* the shortest numeral of a float held in tenths, and of an integer
FormatFloat(x) ==
    IF \E n \in DOMAIN FloatTable : FloatTable[n] = x
    THEN <<CHOOSE n \in DOMAIN FloatTable : FloatTable[n] = x>>
    ELSE <<"?">>
FormatInt(x) ==
    IF \E n \in DOMAIN IntTable : IntTable[n] = x
    THEN <<CHOOSE n \in DOMAIN IntTable : IntTable[n] = x>>
    ELSE <<"?">>

\* the flag string of the four system flags, in the order G, I, L, M
FormatFlags(data) ==
    (IF data["gps_ok"] THEN <<"G">> ELSE <<>>)
    \o (IF data["imu_ok"] THEN <<"I">> ELSE <<>>)
    \o (IF data["link_ok"] THEN <<"L">> ELSE <<>>)
    \o (IF data["motor_armed"] THEN <<"M">> ELSE <<>>)

\* the key:value fields that stand for the recognized fields of a frame
Reencode(data) ==
    { <<"AS", ":">> \o FormatFloat(data["airspeed"]) : k \in {"airspeed"} \cap DOMAIN data }
    \cup { <<"Alt", ":">> \o FormatFloat(data["altitude"]) : k \in {"altitude"} \cap DOMAIN data }
    \cup { <<"Hdg", ":">> \o FormatFloat(data["heading"]) : k \in {"heading"} \cap DOMAIN data }
    \cup { <<"Att", ":">> \o FormatFloat(data["roll"]) \o <<",">>
              \o FormatFloat(data["pitch"]) : k \in {"roll"} \cap DOMAIN data }
    \cup { <<"Thr", ":">> \o FormatInt(data["throttle"]) : k \in {"throttle"} \cap DOMAIN data }
    \cup { <<"WP", ":">> \o FormatInt(data["waypoint"]) : k \in {"waypoint"} \cap DOMAIN data }
    \cup { <<"Saf", ":">> \o data["safety_state"] : k \in {"safety_state"} \cap DOMAIN data }
    \cup { <<"Sys", ":">> \o FormatFlags(data) : k \in {"gps_ok"} \cap DOMAIN data }

\* the key:value fields of the line
PairsOfLine ==
    { FieldsOfLine[i] : i \in { j \in 1..Len(FieldsOfLine) : Contains(FieldsOfLine[j], ":") } }

\* a line of the grammar: after the prefix an optional bare mode token, then
\* key:value fields with recognized keys and values of the key's grammar
\* (every numeral of FloatTable and IntTable is in shortest form), the
\* flags in the order the re-encoding writes them, no key twice
WellFormedLine ==
    /\ startswith(line, SumPrefix)
    /\ \A i \in 1..Len(FieldsOfLine) :
          \/ i = 1 /\ ~Contains(FieldsOfLine[i], ":")
          \/ /\ WellFormed(FieldsOfLine[i])
             /\ KeyOf(FieldsOfLine[i]) = <<"Sys">> =>
                   FormatFlags(Decoded(FieldsOfLine[i])) = ValueOf(FieldsOfLine[i])
    /\ \A i, j \in 1..Len(FieldsOfLine) :
          ( /\ i # j
            /\ Contains(FieldsOfLine[i], ":") /\ Contains(FieldsOfLine[j], ":") )
          => KeyOf(FieldsOfLine[i]) # KeyOf(FieldsOfLine[j])

----------------------------------------------------------------------------
(* What decoded frames can and cannot reach *)

\* C25: in every state reached by applying decoded frames the satellite
\* count is 0 (the initial value), 3 or 8, so the GPS LIMITED warning
\* (fewer than 6 satellites but at least 4) is in no alert report.
C25_SatelliteCountNeverLimited ==
    /\ gps_sats \in {0, 3, 8}
    /\ Count(warnings, "GPS LIMITED") = 0

\* a frame with the G flag clear was applied: three satellites, the GPS
\* critical alert and no GPS LIMITED warning
C25_Witness ==
    /\ op = "_read_data" /\ Truthy(telemetry_data)
    /\ "gps_ok" \in DOMAIN telemetry_data.data /\ ~telemetry_data.data["gps_ok"]
    /\ gps_sats = 3
    /\ Count(critical_alerts, "GPS CRITICAL") = 1
    /\ Count(warnings, "GPS LIMITED") = 0

\* C26: no decoded frame carries a battery value, so battery stays at its
\* initial 0 in every reachable state; after every applied frame the
\* critical list holds the battery-critical entry and the "Systems ready -
\* Safe for takeoff" recommendation is not emitted.
C26_BatteryNeverDecoded ==
    /\ telemetry_data.some => "battery" \notin DOMAIN telemetry_data.data
    /\ battery = 0
    /\ last_data_time > 0 =>
          /\ Count(critical_alerts, "CRITICAL BATTERY") = 1
          /\ ~AnyHas(smart_recommendations, SafeForTakeoff)

\* mode ARMED with a GPS fix: the battery-critical entry is the only
\* critical alert and the recommendation is to return, not to take off
C26_Witness ==
    /\ op = "_read_data" /\ mode = <<"ARMED">> /\ gps_sats = 8
    /\ critical_alerts = <<Alert("CRITICAL BATTERY", 0)>>
    /\ smart_recommendations = <<Alert("Consider RTL mode", 0)>>

----------------------------------------------------------------------------
(* C27 *)

\* a stripped line with the SUM: prefix none of whose fields holds a colon
BareLine(l) ==
    /\ startswith(l, SumPrefix)
    /\ \A i \in 1..Len(split(SubSeq(l, Len(SumPrefix) + 1, Len(l)), "|")) :
          ~Contains(split(SubSeq(l, Len(SumPrefix) + 1, Len(l)), "|")[i], ":")

\* C27: a line with the SUM: prefix and no key:value field decodes to an
\* empty frame that is not emitted: no signal, the flight state, the alert
\* lists and the last-frame timestamp stay as they were; and a status check
\* made more than data_timeout after the timestamp reports NO DATA
C27_BareLineNotApplied ==
    [][ /\ (op' = "_read_data" /\ BareLine(line'))
            => /\ telemetry_data' = Some(<<>>)
               /\ signals' = <<>>
               /\ UNCHANGED hudVars
        /\ (op' = "_check_connection_status"
              /\ now - last_data_time > data_timeout)
            => connection_status' = "NO DATA"
      ]_vars

\* a frame was applied, then only the bare mode line arrived and the link
\* went silent for the monitor
C27_Witness ==
    /\ op = "_check_connection_status"
    /\ line = <<"SUM", ":", "CRUISE">>
    /\ telemetry_data = Some(<<>>)
    /\ last_data_time = StartTime
    /\ connection_status = "NO DATA"

----------------------------------------------------------------------------
(* C28 *)

\* C28: the status check writes the link status only: every flight-state
\* field, the speed extremes, the timestamp, the five alert lists and the
\* system figures are left as the last applied frame set them
C28_CheckChangesStatusOnly ==
    [][ op' = "_check_connection_status"
          => UNCHANGED <<fieldVars, alertVars, sysVars, max_speed, min_speed,
                         last_data_time, serialVars, line, telemetry_data>>
      ]_vars

\* the status has gone to NO DATA and the report of the last frame, with
\* its stall and battery alerts, is still shown
C28_Witness ==
    /\ op = "_check_connection_status"
    /\ connection_status = "NO DATA"
    /\ last_data_time = StartTime
    /\ Count(critical_alerts, "CRITICAL BATTERY") = 1
    /\ Count(critical_alerts, "STALL CRITICAL") = 1

----------------------------------------------------------------------------
(* C29 *)

\* C29: the link status starts as DISCONNECTED; only the status check
\* writes it, and it writes NO DATA or RECEIVING, so no connect, disconnect,
\* failed read or frame brings DISCONNECTED back; a check made before any
\* frame was applied yields NO DATA
C29_DisconnectedOnlyAtStart ==
    /\ connection_status = "DISCONNECTED"
    /\ [][ /\ connection_status' # connection_status
                => op' = "_check_connection_status"
           /\ op' = "_check_connection_status"
                => connection_status' \in {"NO DATA", "RECEIVING"}
           /\ connection_status # "DISCONNECTED"
                => connection_status' # "DISCONNECTED"
           /\ (op' = "_check_connection_status" /\ last_data_time = 0)
                => connection_status' = "NO DATA"
         ]_vars

\* the port was closed after the monitor had seen a live link
C29_Witness ==
    /\ op = "disconnect"
    /\ serial_port = NoPort
    /\ last_data_time = StartTime
    /\ connection_status = "RECEIVING"

====
